---------------------------- MODULE Spec2Model ----------------------------
(***************************************************************************)
(* A model of tap-kpa (src/tap_kpa): the request executor                  *)
(* (validate_response under the backoff decorator of make_request), the    *)
(* page-token controller (get_next_page_token), form/field discovery       *)
(* (discover_forms_streams, get_fields), schema inference (get_schema,     *)
(* get_jsonschema_type), the record normalizer (post_process), the time    *)
(* bound and bookmark of a list stream's run (get_starting_time,           *)
(* get_url_params, replication_key), stream naming and the catalog filter  *)
(* (catalog_dict).  Each component has its own specification; the others   *)
(* are idle while it runs.                                                 *)
(*                                                                         *)
(* Python values of mixed type are modelled as tagged records so that      *)
(* values of different types compare unequal:                              *)
(*   None -> [none |-> TRUE]     int n -> [int |-> n]                      *)
(*   str  -> [str |-> <<chars>>] list  -> [list |-> <<...>>]               *)
(*   datetime -> [ts |-> [sec |-> s, usec |-> u]]                          *)
(* Strings are sequences of one-character strings, so that strip() and     *)
(* f-string formatting are computed and not assumed.                       *)
(***************************************************************************)
EXTENDS Integers, Sequences, FiniteSets, TLC

VARIABLES
    \* ---- request executor (client.py: make_request / validate_response)
    extra_retry_statuses,   \* self.extra_retry_statuses
    rpc,                    \* position inside one make_request call
    tries,                  \* backoff's attempt counter
    requests,               \* HTTP requests issued by this call
    response,               \* the response being validated
    classes,                \* history: classification of every response,
                            \*   and whether it was the rate-limit answer
    cooldowns,              \* history: completed sleep(120) suspensions
    waits,                  \* history: completed backoff waits
    \* ---- page-token controller (client.py: get_next_page_token)
    pstream,                \* the stream class paginating: "list" | "detail"
    serverPaging,           \* the "paging" member of every response body
    ppc,                    \* position in the request loop
    next_page_token,        \* the loop's current token (None at first)
    pageItems,              \* records carried by the response in hand
    emitted,                \* records parsed from the responses so far
    pageRequests,           \* history: the request issued for each page
    \* ---- discovery and detail streams (tap.py, streams.py)
    formsList,              \* the server's answer to forms.list
    serverForms,            \* per form: its fields and how forms.info answers
    tpc,                    \* "start" | "forms" | "sync" | "aborted"
    cursor,                 \* index of the next form discover_forms_streams visits
    streams,                \* streams constructed so far, in order
    returned,               \* what discover_streams returned
    fields,                 \* per detail stream: the cached fields property
    schema,                 \* per detail stream: the cached schema property
    infoRequests,           \* history: forms.info requests issued per form
    fetched,                \* history: get_fields calls that returned fields
    ids,                    \* FormsResponseDateStream.ids, a class attribute
    fields_dict,            \* FormsResponseDateStream.fields_dict, a class attribute
    calls,                  \* history: post_process calls made
    called,                 \* history: per form, the ids post_process was given
    emittedN,               \* history: per form and id, the non-null records
    lastCall,               \* history: the last post_process call and its result
    \* ---- schema inference (client.py: get_jsonschema_type)
    field,                  \* the field whose type is inferred
    jsonschema_type,        \* the type returned for it (None before the call)
    \* ---- one run of a list stream and its detail stream (client.py,
    \*      streams.py)
    config_start_date,      \* self.config.get("start_date")
    state_bookmark,         \* the bookmark persisted by an earlier run
    lpaging,                \* the "paging" member of every responses.list body
    lpc,                    \* position in the run
    ltoken,                 \* the request loop's page token
    paramsSent,             \* history: get_url_params of every page request
    summaries,              \* history: the record summaries emitted
    markers,                \* per stream: the replication value seen so far
    bookmark,               \* the list stream's bookmark as persisted now
    detailRuns,             \* history: detail fetches and normalizations
    \* ---- one detail stream normalizing one payload (streams.py)
    nfields,                \* the stream's fields (forms.info)
    npayload,               \* the "response" member of the responses.info body
    npc,                    \* "call" | "done"
    nresult,                \* what post_process returned or raised
    nfields_dict,           \* fields_dict after the call
    nids,                   \* ids after the call
    \* ---- the catalog (tap.py: catalog_dict)
    is_discover,            \* "run_discovery" is on the call stack
    catalog                 \* the stream names catalog_dict returned

reqVars == <<extra_retry_statuses, rpc, tries, requests, response, classes,
             cooldowns, waits>>
pageVars == <<pstream, serverPaging, ppc, next_page_token, pageItems, emitted,
              pageRequests>>

tapVars == <<formsList, serverForms, tpc, cursor, streams, returned, fields,
             schema, infoRequests, fetched, ids, fields_dict, calls, called,
             emittedN, lastCall>>

typeVars == <<field, jsonschema_type>>

listVars == <<config_start_date, state_bookmark, lpaging, lpc, ltoken,
              paramsSent, summaries, markers, bookmark, detailRuns>>

normVars == <<nfields, npayload, npc, nresult, nfields_dict, nids>>

catVars == <<is_discover, catalog>>

extVars == <<typeVars, listVars, normVars, catVars>>

vars == <<reqVars, pageVars, tapVars, extVars>>

---------------------------------------------------------------------------
(* Python values *)

None == [none |-> TRUE]
PyInt(n) == [int |-> n]
PyStr(s) == [str |-> s]
PyList(l) == [list |-> l]
\* A dict (a JSON object): its <<key, value>> pairs in document order.
PyDict(pairs) == [dict |-> pairs]
\* A key that a dict does not hold (dict.get then yields its default).
Absent == [absent |-> TRUE]
\* Python truthiness of None and of an int.
Truthy(v) == v # None /\ v # PyInt(0)

Last(s) == s[Len(s)]

---------------------------------------------------------------------------
(* Request executor *)

\* backoff.on_exception(..., max_tries=5, factor=2)
MaxTries == 5
Factor == 2
\* sleep(120)
Cooldown == 120

\* Response statuses the server may answer with.
Statuses == {200, 201, 302, 400, 404, 429, 499, 500, 599, 600}
\* Body fields read by validate_response: .get("error") and .get("ok").
BodyErrors == {"absent", "rate_limit_exceeded", "other"}
BodyOks == {"absent", "true", "false"}
Responses == [status : Statuses, error : BodyErrors, ok : BodyOks]
\* Configurations of the stream's extra_retry_statuses.
ExtraRetryChoices == {{429}, {}, {404, 429}, {201, 600}}

\* validate_response with the fatal test placed before the retriable test.
ValidateResponseFatalFirst(resp, extra) ==
    IF resp.status = 200 /\ resp.error = "rate_limit_exceeded"
    THEN [sleep |-> Cooldown, raise |-> "RetriableAPIError"]
    ELSE IF (resp.status >= 400 /\ resp.status < 500)
            \/ (resp.status = 200 /\ resp.ok = "false")
    THEN [sleep |-> 0, raise |-> "FatalAPIError"]
    ELSE IF resp.status \in extra \/ (500 <= resp.status /\ resp.status < 600)
    THEN [sleep |-> 0, raise |-> "RetriableAPIError"]
    ELSE [sleep |-> 0, raise |-> "none"]

\* validate_response without the rate-limit sleep.
ValidateResponseNoSleep(resp, extra) ==
    IF resp.status = 200 /\ resp.error = "rate_limit_exceeded"
    THEN [sleep |-> 0, raise |-> "RetriableAPIError"]
    ELSE IF resp.status \in extra \/ (500 <= resp.status /\ resp.status < 600)
    THEN [sleep |-> 0, raise |-> "RetriableAPIError"]
    ELSE IF (resp.status >= 400 /\ resp.status < 500)
            \/ (resp.status = 200 /\ resp.ok = "false")
    THEN [sleep |-> 0, raise |-> "FatalAPIError"]
    ELSE [sleep |-> 0, raise |-> "none"]

\* KpaStream.validate_response: what it sleeps and what it raises.
ValidateResponse(resp, extra) ==
    IF resp.status = 200 /\ resp.error = "rate_limit_exceeded"
    THEN [sleep |-> Cooldown, raise |-> "RetriableAPIError"]
    ELSE IF resp.status \in extra \/ (500 <= resp.status /\ resp.status < 600)
    THEN [sleep |-> 0, raise |-> "RetriableAPIError"]
    ELSE IF (400 <= resp.status /\ resp.status < 500)
            \/ (resp.status = 200 /\ resp.ok = "false")
    THEN [sleep |-> 0, raise |-> "FatalAPIError"]
    ELSE [sleep |-> 0, raise |-> "none"]

\* The server's rate-limit answer: {status: 200, body: {error: "rate_limit_exceeded"}}.
IsRateLimitResponse(resp) ==
    resp.status = 200 /\ resp.error = "rate_limit_exceeded"

\* The classification recorded for a validated response.
ClassOf(v) ==
    IF v.sleep > 0 THEN "rate_limit"
    ELSE IF v.raise = "RetriableAPIError" THEN "retriable"
    ELSE IF v.raise = "FatalAPIError" THEN "fatal"
    ELSE "success"

\* backoff gives up when the attempt counter reaches max_tries + 1.
GiveUpOneLate(n) == n = MaxTries + 1

\* backoff: max_tries_exceeded = (tries == max_tries).
GiveUp(n) == n = MaxTries

\* backoff.expo(base=2, factor=2): the n-th wait is at most factor * 2^(n-1)
\* (full jitter draws the wait from [0, cap]).
RECURSIVE ExpoCap(_)
ExpoCap(n) == IF n <= 1 THEN Factor ELSE 2 * ExpoCap(n - 1)

ReqInit ==
    /\ extra_retry_statuses \in ExtraRetryChoices
    /\ rpc = "attempt"
    /\ tries = 0
    /\ requests = 0
    /\ response = None
    /\ classes = <<>>
    /\ cooldowns = <<>>
    /\ waits = <<>>

\* make_request: requests.request(http_method, url, json=json)
MR_Request ==
    /\ rpc = "attempt"
    /\ tries' = tries + 1
    /\ requests' = requests + 1
    /\ \E r \in Responses : response' = r
    /\ rpc' = "validate"
    /\ UNCHANGED <<extra_retry_statuses, classes, cooldowns, waits>>
    /\ UNCHANGED <<pageVars, tapVars, extVars>>

\* make_request: self.validate_response(request), up to its sleep or raise.
MR_Validate ==
    /\ rpc = "validate"
    /\ LET v == ValidateResponse(response, extra_retry_statuses) IN
       /\ classes' = Append(classes,
                     [rate_limited |-> IsRateLimitResponse(response),
                      class |-> ClassOf(v)])
       /\ rpc' = IF v.sleep > 0 THEN "cooldown"
                 ELSE IF v.raise = "RetriableAPIError" THEN "retriable"
                 ELSE IF v.raise = "FatalAPIError" THEN "fatal"
                 ELSE "returned"
    /\ UNCHANGED <<extra_retry_statuses, tries, requests, response,
                   cooldowns, waits>>
    /\ UNCHANGED <<pageVars, tapVars, extVars>>

\* validate_response: sleep(120) returns, then RetriableAPIError is raised.
MR_Cooldown ==
    /\ rpc = "cooldown"
    /\ cooldowns' = Append(cooldowns, [after |-> requests, units |-> Cooldown])
    /\ rpc' = "retriable"
    /\ UNCHANGED <<extra_retry_statuses, tries, requests, response, classes,
                   waits>>
    /\ UNCHANGED <<pageVars, tapVars, extVars>>

\* backoff: the exception is re-raised once max_tries is reached.
MR_GiveUp ==
    /\ rpc = "retriable"
    /\ GiveUp(tries)
    /\ rpc' = "exhausted"
    /\ UNCHANGED <<extra_retry_statuses, tries, requests, response, classes,
                   cooldowns, waits>>
    /\ UNCHANGED <<pageVars, tapVars, extVars>>

\* backoff: otherwise it waits and calls the target again.
MR_Backoff ==
    /\ rpc = "retriable"
    /\ ~GiveUp(tries)
    /\ tries < MaxTries + 2
    /\ waits' = Append(waits, ExpoCap(tries))
    /\ rpc' = "attempt"
    /\ UNCHANGED <<extra_retry_statuses, tries, requests, response, classes,
                   cooldowns>>
    /\ UNCHANGED <<pageVars, tapVars, extVars>>

ReqNext ==
    \/ MR_Request
    \/ MR_Validate
    \/ MR_Cooldown
    \/ MR_GiveUp
    \/ MR_Backoff

\* No make_request call in progress.
ReqIdle ==
    /\ extra_retry_statuses = {429}
    /\ rpc = "idle"
    /\ tries = 0
    /\ requests = 0
    /\ response = None
    /\ classes = <<>>
    /\ cooldowns = <<>>
    /\ waits = <<>>

---------------------------------------------------------------------------
(* Page-token controller *)

\* The largest last_page the server reports.
MaxLastPage == 4
\* The most records one response carries.
MaxPerPage == 1

\* FormsResponseDateStream.pagination = False; no code of the tap reads it.
DetailPagination == FALSE

\* The "paging" member of a response body: missing, present without
\* last_page, or present with last_page = L.
Pagings ==
    {Absent, [last_page |-> Absent]}
        \cup {[last_page |-> PyInt(l)] : l \in 0..MaxLastPage}

\* get_next_page_token that stops one page early (last_page > next).
GetNextPageTokenStrict(paging, previous_token) ==
    LET prev == IF Truthy(previous_token) THEN previous_token.int ELSE 1
        nxt == prev + 1
        p == IF paging = Absent THEN [last_page |-> Absent] ELSE paging
        last_page == IF p.last_page = Absent THEN 0 ELSE p.last_page.int
    IN  IF last_page > nxt THEN PyInt(nxt) ELSE None

\* KpaStream.get_next_page_token, inherited unchanged by every stream.
GetNextPageToken(paging, previous_token) ==
    LET prev == IF Truthy(previous_token) THEN previous_token.int ELSE 1
        nxt == prev + 1
        p == IF paging = Absent THEN [last_page |-> Absent] ELSE paging
        last_page == IF p.last_page = Absent THEN 0 ELSE p.last_page.int
    IN  IF last_page >= nxt THEN PyInt(nxt) ELSE None

\* prepare_request_payload: the list stream adds form_id and, for a truthy
\* token, page; the detail stream adds response_id and never a page.
PrepareRequestPayload(stream, token) ==
    IF stream = "list"
    THEN [endpoint |-> "responses.list",
          page |-> IF Truthy(token) THEN token ELSE Absent]
    ELSE [endpoint |-> "responses.info", page |-> Absent]

PageInit ==
    /\ pstream \in {"list", "detail"}
    /\ serverPaging \in Pagings
    /\ ppc = "request"
    /\ next_page_token = None
    /\ pageItems = 0
    /\ emitted = 0
    /\ pageRequests = <<>>

\* One turn of the request loop: the request for the current token is
\* prepared and sent, and the server answers.
PG_Request ==
    /\ ppc = "request"
    /\ pageRequests' = Append(pageRequests,
            [token |-> next_page_token,
             payload |-> PrepareRequestPayload(pstream, next_page_token)])
    /\ pageItems' \in 0..MaxPerPage
    /\ ppc' = "respond"
    /\ UNCHANGED <<pstream, serverPaging, next_page_token, emitted>>
    /\ UNCHANGED <<reqVars, tapVars, extVars>>

\* The response is parsed and get_next_page_token decides whether the loop
\* goes on (a token) or ends (None).
PG_Consume ==
    /\ ppc = "respond"
    /\ emitted' = emitted + pageItems
    /\ pageItems' = 0
    /\ next_page_token' = GetNextPageToken(serverPaging, next_page_token)
    /\ ppc' = IF Truthy(next_page_token') THEN "request" ELSE "done"
    /\ UNCHANGED <<pstream, serverPaging, pageRequests>>
    /\ UNCHANGED <<reqVars, tapVars, extVars>>

PageNext ==
    \/ PG_Request
    \/ PG_Consume

\* No stream is paginating.
PageIdle ==
    /\ pstream = "list"
    /\ serverPaging = Absent
    /\ ppc = "idle"
    /\ next_page_token = None
    /\ pageItems = 0
    /\ emitted = 0
    /\ pageRequests = <<>>

---------------------------------------------------------------------------
(* Strings *)

\* str.strip(): leading and trailing whitespace removed.  Whitespace is
\* what str.isspace() accepts; of the ASCII characters these are the space,
\* tab, line feed, vertical tab, form feed, carriage return and the four
\* separators 0x1c to 0x1f.
IsSpace(c) ==
    c \in {" ", "\t", "\n", "\r", "\f", "", "", "", "", ""}
RECURSIVE LStrip(_)
LStrip(s) ==
    IF s # <<>> /\ IsSpace(Head(s)) THEN LStrip(Tail(s)) ELSE s
RECURSIVE RStrip(_)
RStrip(s) ==
    IF s # <<>> /\ IsSpace(Last(s)) THEN RStrip(SubSeq(s, 1, Len(s) - 1))
    ELSE s
Strip(s) == RStrip(LStrip(s))

\* str(int) for a non-negative int.
DigitChars == <<"0", "1", "2", "3", "4", "5", "6", "7", "8", "9">>
RECURSIVE IntToStr(_)
IntToStr(n) ==
    IF n < 10 THEN <<DigitChars[n + 1]>>
    ELSE IntToStr(n \div 10) \o <<DigitChars[(n % 10) + 1]>>

\* f'{x}' of a field id, which JSON gives as an int or as a string.
Format(v) == IF "int" \in DOMAIN v THEN IntToStr(v.int) ELSE v.str

\* datetime.fromtimestamp(ms / 1000.0, tz=pytz.utc)
FromTimestampMs(ms) ==
    [ts |-> [sec |-> ms \div 1000, usec |-> (ms % 1000) * 1000]]

\* dict.get(key) on the <<key, value>> pairs of a dict; Absent when the
\* key is missing.
RECURSIVE Get(_, _)
Get(obj, key) ==
    IF obj = <<>> THEN Absent
    ELSE IF Head(obj)[1] = key THEN Head(obj)[2]
    ELSE Get(Tail(obj), key)

---------------------------------------------------------------------------
(* Schema inference *)

\* singer_sdk typing: the JSON schema of a property of each type
\* (a property is optional, so "null" is appended to its type list).
BooleanType == [type |-> <<"boolean", "null">>, format |-> "", items |-> <<>>]
IntegerType == [type |-> <<"integer", "null">>, format |-> "", items |-> <<>>]
StringType == [type |-> <<"string", "null">>, format |-> "", items |-> <<>>]
DateTimeType ==
    [type |-> <<"string", "null">>, format |-> "date-time", items |-> <<>>]
ArrayOfStringType ==
    [type |-> <<"array", "null">>, format |-> "", items |-> <<"string">>]
ArrayOfObjectOrStringType ==
    [type |-> <<"array", "null">>, format |-> "",
     items |-> <<"object", "string">>]

\* get_jsonschema_type with the multi-select rule tested before the checkbox
\* rule.
GetJsonschemaTypeListFirst(fld) ==
    LET settings == fld.settings IN
    IF settings.style = "list" /\ settings.multiple
    THEN ArrayOfStringType
    ELSE IF settings.inputtype = "checkbox"
       \/ (settings.inputtype = "switch" /\ settings.defaulted \in {"true", "false"})
    THEN BooleanType
    ELSE IF fld.type = "datetime" THEN DateTimeType
    ELSE IF fld.type = "counter" THEN IntegerType
    ELSE IF fld.type \in {"sketch", "attachments"}
    THEN ArrayOfObjectOrStringType
    ELSE StringType

\* KpaStream.get_jsonschema_type.  settings.defaulted is "true" or "false"
\* for a JSON boolean, "" when the key is missing and any other string for
\* a value that is not a boolean.
GetJsonschemaType(fld) ==
    LET settings == fld.settings IN
    IF settings.inputtype = "checkbox"
       \/ (settings.inputtype = "switch" /\ settings.defaulted \in {"true", "false"})
    THEN BooleanType
    ELSE IF settings.style = "list" /\ settings.multiple
    THEN ArrayOfStringType
    ELSE IF fld.type = "datetime" THEN DateTimeType
    ELSE IF fld.type = "counter" THEN IntegerType
    ELSE IF fld.type \in {"sketch", "attachments"}
    THEN ArrayOfObjectOrStringType
    ELSE StringType

\* The field metadata get_jsonschema_type is given: every combination of a
\* type tag and the four settings it reads.
FieldTypeTags ==
    {"string", "datetime", "counter", "sketch", "attachments", "number"}
InputTypes == {"", "checkbox", "switch", "text"}
Defaulteds == {"", "true", "false", "yes"}
Styles == {"", "list", "grid"}
TypedFields ==
    [id : {PyInt(1)}, title : {<<"N">>}, type : FieldTypeTags,
     settings : [inputtype : InputTypes, defaulted : Defaulteds,
                 style : Styles, multiple : BOOLEAN]]

TypeInit ==
    /\ field \in TypedFields
    /\ jsonschema_type = None

\* self.get_jsonschema_type(field)
InferType ==
    /\ jsonschema_type = None
    /\ jsonschema_type' = GetJsonschemaType(field)
    /\ UNCHANGED field
    /\ UNCHANGED <<reqVars, pageVars, tapVars, listVars, normVars, catVars>>

TypeNext == InferType

\* No type is being inferred.
TypeIdle ==
    /\ field = None
    /\ jsonschema_type = None

\* get_schema, the loop: the names bound so far (its local list
\* fields_dict), one per field, in field order.
RECURSIVE SchemaNames(_)
SchemaNames(flds) ==
    IF flds = <<>> THEN <<>>
    ELSE LET before == SchemaNames(SubSeq(flds, 1, Len(flds) - 1))
             fld == Last(flds)
             title == Strip(fld.title)
         IN  IF \E i \in 1..Len(before) : before[i] = title
             THEN Append(before, Strip(fld.title) \o <<"_">> \o Format(fld.id))
             ELSE Append(before, title)

KpaId == <<"k", "p", "a", "_", "i", "d">>
KpaCreated == <<"k", "p", "a", "_", "c", "r", "e", "a", "t", "e", "d">>
KpaUpdated == <<"k", "p", "a", "_", "u", "p", "d", "a", "t", "e", "d">>

\* get_schema: the three properties every detail schema starts with.
FixedProperties ==
    <<  <<KpaId, IntegerType>>, <<KpaCreated, DateTimeType>>,
        <<KpaUpdated, DateTimeType>>  >>

\* get_schema: the property list, in order: the three fixed properties,
\* then one property per field under its bound name.
SchemaProperties(flds) ==
    FixedProperties
        \o [i \in 1..Len(flds) |->
                <<SchemaNames(flds)[i], GetJsonschemaType(flds[i])>>]

\* PropertiesList(...).to_dict()["properties"]: a dict, so a later property
\* of the same name replaces an earlier one.
GetSchema(flds) ==
    LET props == SchemaProperties(flds)
        names == {props[i][1] : i \in 1..Len(props)}
    IN  [n \in names |->
            LET k == CHOOSE i \in 1..Len(props) :
                        /\ props[i][1] = n
                        /\ \A j \in (i + 1)..Len(props) : props[j][1] # n
            IN  props[k][2]]

---------------------------------------------------------------------------
(* Record normalizer *)

\* A Python dict kept as a sequence of <<key, value>> pairs in insertion
\* order: d[key] = value replaces the value of a key already present.
RECURSIVE DictSet(_, _, _)
DictSet(d, key, value) ==
    IF d = <<>> THEN << <<key, value>> >>
    ELSE IF Head(d)[1] = key THEN << <<key, value>> >> \o Tail(d)
    ELSE <<Head(d)>> \o DictSet(Tail(d), key, value)

DictValues(d) == {d[i][2] : i \in 1..Len(d)}

\* post_process, lines 75-79: the field-id-to-title table, filled from the
\* stream's fields; titles are compared and stored unstripped.
RECURSIVE FillFieldsDict(_, _)
FillFieldsDict(d, flds) ==
    IF flds = <<>> THEN d
    ELSE LET fld == Head(flds) IN
         IF PyStr(fld.title) \notin DictValues(d)
         THEN FillFieldsDict(DictSet(d, fld.id, PyStr(fld.title)),
                             Tail(flds))
         ELSE FillFieldsDict(
                  DictSet(d, fld.id,
                          PyStr(fld.title \o <<"_">> \o Format(fld.id))),
                  Tail(flds))

\* Python truthiness of a value a container holds (None when missing):
\* None, 0, and the empty list, string and dict are falsy.
TruthyValue(v) ==
    v \notin {Absent, None, PyInt(0), PyList(<<>>), PyStr(<<>>), PyDict(<<>>)}

IsList(v) == "list" \in DOMAIN v

\* value["utc_time"] / 1000.0 of a value that is not a number.
TypeErrorRaised == [raised |-> "TypeError"]

\* post_process, lines 108-122: the value taken from a truthy container
\* (TypeErrorRaised when the division of line 118 raises).
Flatten(field_type, value) ==
    IF /\ field_type = "string"
       /\ IsList(Get(value.dict, "values"))
       /\ Get(value.dict, "values").list # <<>>
    THEN Get(value.dict, "values").list[1]
    ELSE IF TruthyValue(Get(value.dict, "attachments"))
    THEN Get(value.dict, "attachments")
    ELSE IF TruthyValue(Get(value.dict, "utc_time"))
    THEN IF "int" \in DOMAIN Get(value.dict, "utc_time")
         THEN FromTimestampMs(Get(value.dict, "utc_time").int)
         ELSE TypeErrorRaised
    ELSE value.dict[1][2]

\* post_process, line 96: self.fields_dict.get(field_id)
ResolveField(fd, field_id) == Get(fd, field_id)

\* post_process, lines 101-103: the first entry of the declared type list of
\* the property called field_name, "" when the schema has no such property.
FieldType(sch, field_name) ==
    IF field_name \in DOMAIN sch THEN sch[field_name].type[1] ELSE ""

\* processed_row[key] = value
RowSet(rec, key, value) ==
    [n \in (DOMAIN rec) \cup {key} |-> IF n = key THEN value ELSE rec[n]]

\* post_process, lines 94-122: the loop over row.items().
RECURSIVE FlattenInto(_, _, _, _)
FlattenInto(rec, entries, fd, sch) ==
    IF entries = <<>> THEN rec
    ELSE LET field_id == Head(entries)[1]
             resolved == ResolveField(fd, field_id)
         IN  IF resolved = Absent
             THEN FlattenInto(rec, Tail(entries), fd, sch)
             ELSE LET field_name == Strip(resolved.str)
                      field_type == FieldType(sch, field_name)
                      value == Get(Head(entries)[2].dict, "value")
                  IN  IF TruthyValue(value)
                      THEN FlattenInto(
                               RowSet(rec, field_name,
                                      Flatten(field_type, value)),
                               Tail(entries), fd, sch)
                      ELSE FlattenInto(rec, Tail(entries), fd, sch)

\* post_process, lines 94-122: the loop raises when the value of a resolved
\* field with a truthy container cannot be taken.
FlattenRaises(entries, fd, sch) ==
    \E j \in 1..Len(entries) :
        LET resolved == ResolveField(fd, entries[j][1])
            value == Get(entries[j][2].dict, "value")
        IN  /\ resolved # Absent
            /\ TruthyValue(value)
            /\ Flatten(FieldType(sch, Strip(resolved.str)), value)
                  = TypeErrorRaised

\* post_process, lines 86-92
MetadataRow(row) ==
    [n \in {KpaId, KpaCreated, KpaUpdated} |->
        IF n = KpaId THEN row.id
        ELSE IF n = KpaCreated THEN FromTimestampMs(row.created)
        ELSE FromTimestampMs(row.updated)]

\* post_process(row): the class-level table fd and set seen as it finds
\* them, the stream's own cached fields and schema; what it leaves in the
\* table and the set, and what it returns (None for a duplicate) or
\* raises.
PostProcess(fd, seen, flds, sch, row) ==
    LET fd1 == IF fd = <<>> THEN FillFieldsDict(fd, flds) ELSE fd IN
    IF row.id \in seen
    THEN [fields_dict |-> fd1, ids |-> seen, result |-> None]
    ELSE [fields_dict |-> fd1,
          ids |-> seen \cup {row.id},
          result |->
              IF FlattenRaises(row.responses, fd1, sch)
              THEN TypeErrorRaised
              ELSE [row |-> FlattenInto(MetadataRow(row), row.responses,
                                        fd1, sch)]]

---------------------------------------------------------------------------
(* Discovery and the detail streams *)

\* The most post_process calls of one run.
MaxCalls == 2
\* Record identifiers of the detail payloads.
RowIds == {1, 2}

\* The forms forms.list returns, in order.
Forms == <<1, 2>>
FormIds == {Forms[i] : i \in 1..Len(Forms)}

NoSettings ==
    [inputtype |-> "", defaulted |-> "", style |-> "", multiple |-> FALSE]
Field(id, title, type) ==
    [id |-> PyStr(id), title |-> title, type |-> type, settings |-> NoSettings]

\* Field lists forms.info may return for a form.
FieldLists ==
    {   <<Field(<<"1">>, <<"N">>, "string"), Field(<<"2">>, <<"N">>, "string")>>,
        <<Field(<<"1">>, <<"N", " ">>, "string"),
          Field(<<"2">>, <<"N", " ">>, "string")>>,
        <<Field(<<"1">>, <<"N">>, "string"),
          Field(<<"2">>, <<"M">>, "datetime")>>,
        <<Field(<<"1">>, <<"N">>, "string"),
          Field(<<"2">>, <<" ", "N">>, "counter")>>   }

Resp(status, error, ok) == [status |-> status, error |-> error, ok |-> ok]

\* How the server answers the successive forms.info requests for a form
\* (the last answer repeats).
InfoAnswers ==
    {   <<Resp(200, "absent", "true")>>,
        <<Resp(500, "absent", "absent"), Resp(200, "absent", "true")>>,
        <<Resp(404, "absent", "absent")>>,
        <<Resp(200, "absent", "false")>>,
        <<Resp(200, "absent", "absent")>>,
        <<Resp(500, "absent", "absent")>>   }

\* Answers to forms.list: the status and the body's ok.
FormsListAnswers ==
    {Resp(200, "absent", "true"), Resp(200, "absent", "false"),
     Resp(200, "absent", "absent"), Resp(500, "absent", "true")}

\* make_request run to its end against a given sequence of answers: the
\* response it returns or the error it raises, and the requests it issued.
RECURSIVE MakeRequest(_, _, _)
MakeRequest(answers, extra, n) ==
    LET r == answers[IF n <= Len(answers) THEN n ELSE Len(answers)]
        v == ValidateResponse(r, extra)
    IN  IF v.raise = "none"
        THEN [outcome |-> "returned", response |-> r, requests |-> n]
        ELSE IF v.raise = "FatalAPIError"
        THEN [outcome |-> "FatalAPIError", response |-> r, requests |-> n]
        ELSE IF GiveUp(n) \/ n > MaxTries
        THEN [outcome |-> "RetriableAPIError", response |-> r, requests |-> n]
        ELSE MakeRequest(answers, extra, n + 1)

\* get_fields: the fields of the form, or the exception it raises.
GetFields(form, extra) ==
    LET m == MakeRequest(serverForms[form].info, extra, 1) IN
    IF m.outcome # "returned"
    THEN [ok |-> FALSE, raised |-> m.outcome, requests |-> m.requests]
    ELSE IF m.response.status = 200 /\ m.response.ok = "true"
    THEN [ok |-> TRUE, fields |-> serverForms[form].fields,
          requests |-> m.requests]
    ELSE [ok |-> FALSE, raised |-> "Exception", requests |-> m.requests]

\* Stream names.
Roles == <<"r", "o", "l", "e", "s">>
Users == <<"u", "s", "e", "r", "s">>
LinesOfBusiness ==
    <<"l", "i", "n", "e", "s", "_", "o", "f", "_", "b", "u", "s", "i", "n",
      "e", "s", "s">>
ResponsesListSuffix ==
    <<"_", "r", "e", "s", "p", "o", "n", "s", "e", "s", "_", "l", "i", "s",
      "t">>

\* STREAM_TYPES, constructed first by discover_streams.
FixedStreams ==
    <<[kind |-> "roles", form |-> 0, name |-> Roles],
      [kind |-> "users", form |-> 0, name |-> Users],
      [kind |-> "lines_of_business", form |-> 0, name |-> LinesOfBusiness]>>

\* The characters \w matches, among those the form names are written in.
WordChars ==
    {"A", "B", "_", "a", "b", "e", "f", "i", "l", "n", "o", "p", "r", "s",
     "t", "u", "0", "1", "2"}

\* name.replace(" ", "_")
RECURSIVE ReplaceSpaces(_)
ReplaceSpaces(s) ==
    IF s = <<>> THEN <<>>
    ELSE <<IF Head(s) = " " THEN "_" ELSE Head(s)>> \o ReplaceSpaces(Tail(s))

\* re.compile("[^\w]+").sub("", name)
RECURSIVE RemoveNonWord(_)
RemoveNonWord(s) ==
    IF s = <<>> THEN <<>>
    ELSE (IF Head(s) \in WordChars THEN <<Head(s)>> ELSE <<>>)
             \o RemoveNonWord(Tail(s))

\* discover_forms_streams, lines 51-53: the stream name of a form.
SanitizeName(name) == RemoveNonWord(ReplaceSpaces(name))

\* The name of a form's list stream.
ParentStreamName(name) == name \o ResponsesListSuffix

\* forms.list is accepted on any body with status 200.
FormsListAcceptedStatusOnly(resp) == resp.status = 200

\* discover_forms_streams, line 46: status 200 and a truthy ok.
FormsListAccepted(resp) == resp.status = 200 /\ resp.ok = "true"

\* A response body's value container, under its "value" key.
Container(pairs) == PyDict(<< <<"value", PyDict(pairs)>> >>)

AllContainers ==
    {   Container(<< <<"values", PyList(<<PyStr(<<"a">>), PyStr(<<"b">>)>>)>> >>),
        Container(<< <<"values", PyList(<<>>)>> >>),
        Container(<< <<"attachments", PyList(<<PyStr(<<"f">>)>>)>> >>),
        Container(<< <<"utc_time", PyInt(1500)>> >>),
        Container(<< <<"utc_time", PyInt(0)>> >>),
        Container(<< <<"foo", PyStr(<<"b", "a", "r">>)>> >>),
        Container(<< <<"foo", PyStr(<<"b", "a", "r">>)>>,
                     <<"utc_time", PyInt(1500)>> >>),
        Container(<< <<"foo", PyStr(<<"b", "a", "r">>)>>,
                     <<"attachments", PyDict(<<>>)>> >>),
        Container(<<>>),
        PyDict(<<>>)   }

\* The containers sent for the second field and for an unknown field.
SomeContainers ==
    {   Container(<< <<"values", PyList(<<PyStr(<<"a">>), PyStr(<<"b">>)>>)>> >>),
        Container(<< <<"utc_time", PyInt(1500)>> >>)   }

\* The latest.responses objects of the detail payloads: keyed by field id
\* (a JSON object key, so a string); "9" is the id of no field.
ResponseObjects ==
    {<<>>}
    \cup {<< <<PyStr(<<"1">>), c>> >> : c \in AllContainers}
    \cup {<< <<PyStr(<<"2">>), c>> >> : c \in SomeContainers}
    \cup {<< <<PyStr(<<"9">>), c>> >> : c \in SomeContainers}
    \cup {<<  <<PyStr(<<"1">>),
               Container(<< <<"values", PyList(<<PyStr(<<"x">>)>>)>> >>)>>,
              <<PyStr(<<"2">>),
               Container(<< <<"values", PyList(<<PyStr(<<"y">>)>>)>> >>)>>  >>}

\* Detail payloads (the "response" member of a responses.info body).
Rows ==
    [id : {PyInt(i) : i \in RowIds}, created : {0}, updated : {1500},
     responses : ResponseObjects]

\* self.ids and self.fields_dict as the detail stream of form f reads them:
\* neither the instance nor the per-form subclass defines them, so both
\* resolve to the attributes of the class FormsResponseDateStream.
SeenIds(f) == ids
Resolution(f) == fields_dict

\* The name of form f when the names are not under study.
PlainName(f) == <<"f">> \o IntToStr(f)

\* The forms of the server: their fields, how forms.info answers for them,
\* and their names.
TapServers ==
    {[f \in FormIds |->
        [fields |-> sf[f].fields, info |-> sf[f].info, name |-> PlainName(f)]] :
        sf \in [FormIds -> [fields : FieldLists, info : InfoAnswers]]}

TapStart(servers) ==
    /\ formsList \in FormsListAnswers
    /\ serverForms \in servers
    /\ tpc = "start"
    /\ cursor = 1
    /\ streams = <<>>
    /\ returned = <<>>
    /\ fields = [f \in FormIds |-> Absent]
    /\ schema = [f \in FormIds |-> Absent]
    /\ infoRequests = [f \in FormIds |-> 0]
    /\ fetched = [f \in FormIds |-> 0]
    /\ ids = {}
    /\ fields_dict = <<>>
    /\ calls = 0
    /\ called = [f \in FormIds |-> {}]
    /\ emittedN = [f \in FormIds |-> [i \in RowIds |-> 0]]
    /\ lastCall = None

TapInit == TapStart(TapServers)

\* discover_streams builds the fixed streams, then discover_forms_streams
\* posts forms.list and finds status 200 and a truthy ok.
DiscoverFormsList ==
    /\ tpc = "start"
    /\ FormsListAccepted(formsList)
    /\ streams' = FixedStreams
    /\ tpc' = "forms"
    /\ UNCHANGED <<formsList, serverForms, cursor, returned, fields, schema,
                   infoRequests, fetched, ids, fields_dict, calls, called,
                   emittedN, lastCall>>
    /\ UNCHANGED <<reqVars, pageVars, extVars>>

\* ... or it raises: the exception leaves discover_streams, which returns
\* nothing; the fixed streams it had constructed are dropped.
DiscoverFormsListFails ==
    /\ tpc = "start"
    /\ ~FormsListAccepted(formsList)
    /\ streams' = FixedStreams
    /\ tpc' = "aborted"
    /\ UNCHANGED <<formsList, serverForms, cursor, returned, fields,
                   schema, infoRequests, fetched, ids, fields_dict, calls,
                   called, emittedN, lastCall>>
    /\ UNCHANGED <<reqVars, pageVars, extVars>>

\* One turn of the loop over the forms: the list stream is constructed and
\* yielded, then the detail stream is constructed; constructing it reads its
\* schema, which reads its fields, which calls get_fields.
DiscoverForm ==
    /\ tpc = "forms"
    /\ cursor <= Len(Forms)
    /\ LET f == Forms[cursor]
           name == SanitizeName(serverForms[f].name)
           got == GetFields(f, extra_retry_statuses)
       IN  /\ got.ok
           /\ infoRequests' = [infoRequests EXCEPT ![f] = @ + got.requests]
           /\ fetched' = [fetched EXCEPT ![f] = @ + 1]
           /\ fields' = [fields EXCEPT ![f] = PyList(got.fields)]
           /\ schema' = [schema EXCEPT ![f] = PyDict(GetSchema(got.fields))]
           /\ streams' = streams \o
                  <<[kind |-> "list", form |-> f,
                     name |-> ParentStreamName(name)],
                    [kind |-> "detail", form |-> f, name |-> name]>>
    /\ cursor' = cursor + 1
    /\ UNCHANGED <<formsList, serverForms, tpc, returned, ids, fields_dict,
                   calls, called, emittedN, lastCall>>
    /\ UNCHANGED <<reqVars, pageVars, extVars>>

\* ... or get_fields raises: nothing in the tap catches the exception, so it
\* leaves the generator and discover_streams.
DiscoverFormFails ==
    /\ tpc = "forms"
    /\ cursor <= Len(Forms)
    /\ LET f == Forms[cursor]
           name == SanitizeName(serverForms[f].name)
           got == GetFields(f, extra_retry_statuses)
       IN  /\ ~got.ok
           /\ infoRequests' = [infoRequests EXCEPT ![f] = @ + got.requests]
           /\ streams' = Append(streams,
                                [kind |-> "list", form |-> f,
                                 name |-> ParentStreamName(name)])
    /\ tpc' = "aborted"
    /\ UNCHANGED <<formsList, serverForms, cursor, returned, fields, schema,
                   fetched, ids, fields_dict, calls, called, emittedN,
                   lastCall>>
    /\ UNCHANGED <<reqVars, pageVars, extVars>>

\* The generator is exhausted: discover_streams returns the list.
DiscoverDone ==
    /\ tpc = "forms"
    /\ cursor = Len(Forms) + 1
    /\ returned' = streams
    /\ tpc' = "sync"
    /\ UNCHANGED <<formsList, serverForms, cursor, streams, fields, schema,
                   infoRequests, fetched, ids, fields_dict, calls, called,
                   emittedN, lastCall>>
    /\ UNCHANGED <<reqVars, pageVars, extVars>>

\* The detail stream of form f normalizes one detail payload.
PostProcessRow ==
    /\ tpc = "sync"
    /\ calls < MaxCalls
    /\ \E f \in FormIds, row \in Rows :
          LET got == PostProcess(Resolution(f), SeenIds(f), fields[f].list,
                                 schema[f].dict, row)
          IN  /\ fields_dict' = got.fields_dict
              /\ ids' = got.ids
              /\ called' = [called EXCEPT ![f] = @ \cup {row.id.int}]
              /\ emittedN' = [emittedN EXCEPT ![f][row.id.int] =
                                 @ + (IF "row" \in DOMAIN got.result
                                      THEN 1 ELSE 0)]
              /\ lastCall' = [form |-> f, row |-> row, result |-> got.result,
                              first |-> row.id.int \notin called[f],
                              filled |-> Resolution(f) = <<>>]
    /\ calls' = calls + 1
    /\ UNCHANGED <<formsList, serverForms, tpc, cursor, streams, returned,
                   fields, schema, infoRequests, fetched>>
    /\ UNCHANGED <<reqVars, pageVars, extVars>>

TapNext ==
    \/ DiscoverFormsList
    \/ DiscoverFormsListFails
    \/ DiscoverForm
    \/ DiscoverFormFails
    \/ DiscoverDone
    \/ PostProcessRow

\* No tap is running.
TapIdle ==
    /\ formsList = Resp(200, "absent", "true")
    /\ serverForms = [f \in FormIds |-> Absent]
    /\ tpc = "idle"
    /\ cursor = 1
    /\ streams = <<>>
    /\ returned = <<>>
    /\ fields = [f \in FormIds |-> Absent]
    /\ schema = [f \in FormIds |-> Absent]
    /\ infoRequests = [f \in FormIds |-> 0]
    /\ fetched = [f \in FormIds |-> 0]
    /\ ids = {}
    /\ fields_dict = <<>>
    /\ calls = 0
    /\ called = [f \in FormIds |-> {}]
    /\ emittedN = [f \in FormIds |-> [i \in RowIds |-> 0]]
    /\ lastCall = None

---------------------------------------------------------------------------
(* One run of a list stream: the time bound and the bookmark *)

\* The most record summaries one run emits.
MaxSummaries == 2

\* Instants, in epoch milliseconds.
Instants == {0, 1000, 1001, 1500}

\* config start_date: missing, or the ISO-8601 text of an instant.
StartDates == {Absent} \cup {[iso |-> ms] : ms \in Instants}
\* The persisted bookmark: missing, or an instant.
Bookmarks == {Absent} \cup {PyInt(ms) : ms \in Instants}
\* Record summaries of responses.list.
Summaries == [id : {1}, created : Instants, updated : Instants]

\* pendulum.parse of an ISO-8601 text: the instant it names.
Parse(text) == FromTimestampMs(text.iso)

\* int(start_date.timestamp() * 1000).  timestamp() is the double nearest
\* to the instant in seconds; its product with 1000 is rounded to a double
\* again and int() discards the fraction.  For a whole-millisecond instant
\* below 4000 ms the product falls just short of the integer exactly for the
\* instants listed (1.001 * 1000 is 1000.9999999999999), and int() then
\* yields one millisecond less.
ProductFallsShort(ms) ==
    \/ (ms \in 1001..1023 /\ ms % 2 = 1)
    \/ (ms \in 2002..2046 /\ ms % 4 = 2)
TimestampMs(dt) ==
    LET ms == dt.ts.sec * 1000 + dt.ts.usec \div 1000 IN
    IF ProductFallsShort(ms) THEN ms - 1 ELSE ms

\* replication_key of the stream classes: "updated" for the list stream,
\* none ("") for the detail stream, which does not declare one.
ReplicationKey(stream) == IF stream = "list" THEN "updated" ELSE ""

\* replication_field: "updated_after" for the list stream, None ("") for
\* every other stream.
ReplicationField(stream) == IF stream = "list" THEN "updated_after" ELSE ""

\* self.get_starting_timestamp(context), by its contract: the persisted
\* bookmark as a timestamp when there is one, else the configured
\* start_date, else None.
GetStartingTimestamp(persisted, cfg) ==
    IF persisted # Absent THEN FromTimestampMs(persisted.int)
    ELSE IF cfg # Absent THEN Parse(cfg)
    ELSE None

\* KpaStream.get_starting_time
GetStartingTime(cfg, rep_key) ==
    LET start_date == IF cfg # Absent THEN Parse(cfg) ELSE None IN
    IF rep_key # None THEN rep_key ELSE start_date

\* KpaStream.get_url_params
GetUrlParams(stream, token, cfg, rep_key) ==
    LET start_date == GetStartingTime(cfg, rep_key) IN
    [page |-> IF Truthy(token) THEN token ELSE Absent,
     updated_after |->
        IF /\ ReplicationKey(stream) # ""
           /\ ReplicationField(stream) # ""
           /\ start_date # None
        THEN PyInt(TimestampMs(start_date))
        ELSE Absent]

\* The stream state after a record of an unsorted stream: the largest
\* replication value seen so far; a stream with no replication key keeps
\* none.
IncrementState(marker, key, record) ==
    IF key = "" THEN marker
    ELSE IF marker = None \/ record[key] >= marker.int
    THEN PyInt(record[key])
    ELSE marker

\* The end of the stream: the largest value seen in the run becomes the
\* bookmark; a run that saw no record leaves the bookmark as it was.
FinalizeState(written, marker) == IF marker = None THEN written ELSE marker

ListInit ==
    /\ config_start_date \in StartDates
    /\ state_bookmark \in Bookmarks
    /\ lpaging \in Pagings
    /\ lpc = "request"
    /\ ltoken = None
    /\ paramsSent = <<>>
    /\ summaries = <<>>
    /\ markers = [st \in {"list", "detail"} |-> None]
    \* the run starts from the bookmark the earlier run persisted
    /\ bookmark = (IF state_bookmark = Absent THEN None ELSE state_bookmark)
    /\ detailRuns = 0

\* The request for the current page is prepared: get_url_params.
LS_Request ==
    /\ lpc = "request"
    /\ paramsSent' = Append(paramsSent,
            GetUrlParams("list", ltoken, config_start_date,
                GetStartingTimestamp(state_bookmark, config_start_date)))
    /\ lpc' = "page"
    /\ UNCHANGED <<config_start_date, state_bookmark, lpaging, ltoken,
                   summaries, markers, bookmark, detailRuns>>
    /\ UNCHANGED <<reqVars, pageVars, tapVars, typeVars, normVars,
                   catVars>>

\* The next record summary of the page is parsed and becomes the context of
\* the detail stream (get_child_context).
LS_Record ==
    /\ lpc = "page"
    /\ Len(summaries) < MaxSummaries
    /\ \E r \in Summaries : summaries' = Append(summaries, r)
    /\ lpc' = "child"
    /\ UNCHANGED <<config_start_date, state_bookmark, lpaging, ltoken,
                   paramsSent, markers, bookmark, detailRuns>>
    /\ UNCHANGED <<reqVars, pageVars, tapVars, typeVars, normVars,
                   catVars>>

\* The detail stream fetches and normalizes the record of that context; its
\* own state takes the record's replication value, of which it has none.
LS_Detail ==
    /\ lpc = "child"
    /\ detailRuns' = detailRuns + 1
    /\ markers' = [markers EXCEPT !["detail"] =
                      IncrementState(@, ReplicationKey("detail"),
                                     Last(summaries))]
    /\ lpc' = "increment"
    /\ UNCHANGED <<config_start_date, state_bookmark, lpaging, ltoken,
                   paramsSent, summaries, bookmark>>
    /\ UNCHANGED <<reqVars, pageVars, tapVars, typeVars, normVars,
                   catVars>>

\* The list stream's state takes the summary's replication value.
LS_Increment ==
    /\ lpc = "increment"
    /\ markers' = [markers EXCEPT !["list"] =
                      IncrementState(@, ReplicationKey("list"),
                                     Last(summaries))]
    /\ lpc' = "page"
    /\ UNCHANGED <<config_start_date, state_bookmark, lpaging, ltoken,
                   paramsSent, summaries, bookmark, detailRuns>>
    /\ UNCHANGED <<reqVars, pageVars, tapVars, typeVars, normVars,
                   catVars>>

\* The page is consumed: get_next_page_token.
LS_NextPage ==
    /\ lpc = "page"
    /\ ltoken' = GetNextPageToken(lpaging, ltoken)
    /\ lpc' = IF Truthy(ltoken') THEN "request" ELSE "finalize"
    /\ UNCHANGED <<config_start_date, state_bookmark, lpaging, paramsSent,
                   summaries, markers, bookmark, detailRuns>>
    /\ UNCHANGED <<reqVars, pageVars, tapVars, typeVars, normVars,
                   catVars>>

\* No page is left: the list stream's state is finalized.
LS_Done ==
    /\ lpc = "finalize"
    /\ bookmark' = FinalizeState(bookmark, markers["list"])
    /\ lpc' = "done"
    /\ UNCHANGED <<config_start_date, state_bookmark, lpaging, ltoken,
                   paramsSent, summaries, markers, detailRuns>>
    /\ UNCHANGED <<reqVars, pageVars, tapVars, typeVars, normVars,
                   catVars>>

ListNext ==
    \/ LS_Request
    \/ LS_Record
    \/ LS_Detail
    \/ LS_Increment
    \/ LS_NextPage
    \/ LS_Done

\* No list stream is running.
ListIdle ==
    /\ config_start_date = Absent
    /\ state_bookmark = Absent
    /\ lpaging = Absent
    /\ lpc = "idle"
    /\ ltoken = None
    /\ paramsSent = <<>>
    /\ summaries = <<>>
    /\ markers = [st \in {"list", "detail"} |-> None]
    /\ bookmark = None
    /\ detailRuns = 0

---------------------------------------------------------------------------
(* One detail stream normalizing one payload, as the body carries it *)

\* row.get("latest", {}).get("responses") of a payload: None when either
\* key is missing.
LatestResponses(payload) ==
    LET latest == Get(payload.dict, "latest") IN
    IF latest = Absent THEN None
    ELSE IF Get(latest.dict, "responses") = Absent THEN None
    ELSE Get(latest.dict, "responses")

\* post_process on the payload of a responses.info body: as PostProcess,
\* but row.items() raises AttributeError when the payload has no
\* latest.responses (the id is in ids by then).
PostProcessPayload(fd, seen, flds, sch, payload) ==
    LET responses == LatestResponses(payload)
        row == [id |-> Get(payload.dict, "id"),
                created |-> Get(payload.dict, "created").int,
                updated |-> Get(payload.dict, "updated").int,
                responses |-> IF responses = None THEN <<>>
                              ELSE responses.dict]
        got == PostProcess(fd, seen, flds, sch, row)
    IN  IF got.result # None /\ responses = None
        THEN [got EXCEPT !.result = [raised |-> "AttributeError"]]
        ELSE got

\* A field whose id JSON gives as a number.
NumberedField(id, title, type) ==
    [id |-> PyInt(id), title |-> title, type |-> type, settings |-> NoSettings]
\* The decimal text of a field id.
IdText(id) == PyStr(IntToStr(id))

\* Titles of the fields of a form: equal, equal up to surrounding
\* whitespace, equal to another field's suffixed name, and distinct.
Titles == {<<"N">>, <<" ", "N">>, <<"N", "_", "2">>, <<"M">>}
Name == <<"N", "a", "m", "e">>

\* The field lists of a form: two or three string fields with ids 1, 2, 3,
\* given as numbers or as strings.
NormFieldLists ==
    {[i \in 1..n |-> NumberedField(i, t[i], "string")] :
        n \in 2..3, t \in [1..3 -> Titles \cup {Name}]}
    \cup {[i \in 1..n |-> [id |-> IdText(i), title |-> t[i], type |-> "string",
                            settings |-> NoSettings]] :
            n \in 2..3, t \in [1..3 -> Titles \cup {Name}]}

ValuesOf(str) == Container(<< <<"values", PyList(<<PyStr(str)>>)>> >>)

\* The per-field containers of a payload, keyed by field id (a JSON object
\* key, so a string).
NormResponses ==
    {   PyDict(<< <<IdText(1), ValuesOf(<<"x">>)>>,
                  <<IdText(2), ValuesOf(<<"y">>)>> >>),
        PyDict(<< <<IdText(1), ValuesOf(<<"x">>)>>,
                  <<IdText(2), ValuesOf(<<"y">>)>>,
                  <<IdText(3), ValuesOf(<<"z">>)>> >>)   }

\* Payloads: the containers under "values", under latest.responses, or
\* under neither.
NormPayloads ==
    {PyDict(<< <<"id", PyInt(9)>>, <<"created", PyInt(0)>>,
               <<"updated", PyInt(0)>>, <<"values", r>> >>) :
        r \in NormResponses}
    \cup {PyDict(<< <<"id", PyInt(9)>>, <<"created", PyInt(0)>>,
                    <<"updated", PyInt(0)>>,
                    <<"latest", PyDict(<< <<"responses", r>> >>)>> >>) :
            r \in NormResponses}
    \cup {PyDict(<< <<"id", PyInt(9)>>, <<"created", PyInt(0)>>,
                    <<"updated", PyInt(0)>>, <<"latest", PyDict(<<>>)>> >>)}

NormInit ==
    /\ nfields \in NormFieldLists
    /\ npayload \in NormPayloads
    /\ npc = "call"
    /\ nresult = None
    /\ nfields_dict = <<>>
    /\ nids = {}

\* The detail stream, its fields and schema cached, normalizes the payload.
Normalize ==
    /\ npc = "call"
    /\ LET got == PostProcessPayload(nfields_dict, nids, nfields,
                                     GetSchema(nfields), npayload)
       IN  /\ nresult' = got.result
           /\ nfields_dict' = got.fields_dict
           /\ nids' = got.ids
    /\ npc' = "done"
    /\ UNCHANGED <<nfields, npayload>>
    /\ UNCHANGED <<reqVars, pageVars, tapVars, typeVars, listVars,
                   catVars>>

NormNext == Normalize

\* No payload is being normalized.
NormIdle ==
    /\ nfields = <<>>
    /\ npayload = None
    /\ npc = "idle"
    /\ nresult = None
    /\ nfields_dict = <<>>
    /\ nids = {}

---------------------------------------------------------------------------
(* Discovery of named forms and the catalog *)

\* Form names forms.list may return.
FormNames ==
    {   <<"A">>, <<"A", " ", "B">>, <<"A", "_", "B">>, <<"A", "!">>,
        Users,
        <<"A">> \o ResponsesListSuffix,
        <<"A", " ", "r", "e", "s", "p", "o", "n", "s", "e", "s", " ", "l",
          "i", "s", "t">>   }

\* The forms of the server when the names are under study: no two forms
\* have the same name.
NamedServers ==
    {sf \in [FormIds ->
                [fields : {<<Field(<<"1">>, <<"N">>, "string")>>},
                 info : {<<Resp(200, "absent", "true")>>,
                         <<Resp(404, "absent", "absent")>>},
                 name : FormNames]] :
        \A f, g \in FormIds : sf[f].name = sf[g].name => f = g}

\* str.endswith
EndsWith(s, suffix) ==
    /\ Len(s) >= Len(suffix)
    /\ SubSeq(s, Len(s) - Len(suffix) + 1, Len(s)) = suffix

\* TapKpa.catalog_dict over the stream names of the tap's catalog: in
\* discovery the names ending in "_responses_list" are filtered out.
CatalogDict(names, discover) ==
    IF discover
    THEN SelectSeq(names, LAMBDA n : ~EndsWith(n, ResponsesListSuffix))
    ELSE names

DiscInit ==
    /\ TapStart(NamedServers)
    /\ is_discover \in BOOLEAN
    /\ catalog = None

\* catalog_dict is read once the streams are discovered.
ReadCatalog ==
    /\ tpc = "sync"
    /\ catalog = None
    /\ catalog' = PyList(CatalogDict([i \in 1..Len(returned) |->
                                         returned[i].name], is_discover))
    /\ UNCHANGED is_discover
    /\ UNCHANGED <<reqVars, pageVars, tapVars, typeVars, listVars, normVars>>

DiscNext ==
    \/ DiscoverFormsList
    \/ DiscoverFormsListFails
    \/ DiscoverForm
    \/ DiscoverFormFails
    \/ DiscoverDone
    \/ ReadCatalog

\* No catalog is read.
CatIdle ==
    /\ is_discover = FALSE
    /\ catalog = None

---------------------------------------------------------------------------
(* Specifications *)

\* Nothing but the component under study is running.
ExtIdle == TypeIdle /\ ListIdle /\ NormIdle /\ CatIdle

InitReq == ReqInit /\ PageIdle /\ TapIdle /\ ExtIdle
SpecReq == InitReq /\ [][ReqNext]_vars

InitPage == ReqIdle /\ PageInit /\ TapIdle /\ ExtIdle
SpecPage == InitPage /\ [][PageNext]_vars

InitTap == ReqIdle /\ PageIdle /\ TapInit /\ ExtIdle
SpecTap == InitTap /\ [][TapNext]_vars

InitType ==
    /\ ReqIdle /\ PageIdle /\ TapIdle
    /\ TypeInit /\ ListIdle /\ NormIdle /\ CatIdle
SpecType == InitType /\ [][TypeNext]_vars

InitList ==
    /\ ReqIdle /\ PageIdle /\ TapIdle
    /\ TypeIdle /\ ListInit /\ NormIdle /\ CatIdle
SpecList == InitList /\ [][ListNext]_vars

InitNorm ==
    /\ ReqIdle /\ PageIdle /\ TapIdle
    /\ TypeIdle /\ ListIdle /\ NormInit /\ CatIdle
SpecNorm == InitNorm /\ [][NormNext]_vars

InitDisc ==
    /\ ReqIdle /\ PageIdle /\ DiscInit
    /\ TypeIdle /\ ListIdle /\ NormIdle
SpecDisc == InitDisc /\ [][DiscNext]_vars

---------------------------------------------------------------------------
(* Claims about the request executor, checked under SpecReq *)

Validated == requests > 0 /\ Len(classes) = requests
RetriableClasses == {"retriable", "rate_limit"}

ClaimRetriable(resp, extra) ==
    \/ (resp.status = 200 /\ resp.error = "rate_limit_exceeded")
    \/ resp.status \in extra
    \/ resp.status \in 500..599
ClaimFatal(resp, extra) ==
    /\ ~ClaimRetriable(resp, extra)
    /\ \/ resp.status \in 400..499
       \/ (resp.status = 200 /\ resp.ok = "false")

\* C2: validate_response classifies every response by the ordered rules:
\* rate-limit body on 200 is retriable; a status in the extra-retry set or
\* in [500,600) is retriable; otherwise a status in [400,500) or a 200 with
\* ok == false is fatal; anything else is a success.
C2_Classification ==
    Validated =>
        LET c == Last(classes).class IN
        /\ (c \in RetriableClasses)
              <=> ClaimRetriable(response, extra_retry_statuses)
        /\ (c = "fatal") <=> ClaimFatal(response, extra_retry_statuses)
        /\ (c = "success") <=>
              (~ClaimRetriable(response, extra_retry_statuses)
               /\ ~ClaimFatal(response, extra_retry_statuses))

\* A 4xx status listed in the extra-retry set was classified retriable, and
\* the call went on to retry it.
C2_Witness ==
    /\ Validated
    /\ response.status = 404
    /\ 404 \in extra_retry_statuses
    /\ Last(classes).class = "retriable"
    /\ rpc = "retriable"

\* C3: one make_request call issues at most 5 requests: a request is
\* re-issued only after a retriable classification, the call stops at the
\* first success, fails after the 5th consecutive retriable response and
\* fails at once, with no further request, after a fatal classification.
C3_AtMostFiveRequests ==
    /\ requests <= 5
    /\ requests = Len(classes) + (IF rpc = "validate" THEN 1 ELSE 0)
    /\ \A i \in 1..(Len(classes) - 1) : classes[i].class \in RetriableClasses
    /\ rpc = "returned" => Last(classes).class = "success"
    /\ rpc = "fatal" => Last(classes).class = "fatal"
    /\ rpc = "exhausted" =>
          /\ requests = 5
          /\ \A i \in 1..5 : classes[i].class \in RetriableClasses
    /\ (Len(classes) = 5 /\ Last(classes).class \in RetriableClasses)
          => rpc \in {"cooldown", "retriable", "exhausted"}

\* The call has failed after five retriable responses.
C3_Witness ==
    /\ rpc = "exhausted"
    /\ requests = 5
    /\ \A i \in 1..5 : classes[i].class \in RetriableClasses

\* The number of rate-limit answers among the validated responses.
RECURSIVE RateLimitedCount(_)
RateLimitedCount(h) ==
    IF h = <<>> THEN 0
    ELSE (IF Last(h).rate_limited THEN 1 ELSE 0)
         + RateLimitedCount(SubSeq(h, 1, Len(h) - 1))

C4_Suspension ==
    \* exactly one 120-unit suspension per rate-limit answer, and none for
    \* any other classification
    /\ Len(cooldowns) + (IF rpc = "cooldown" THEN 1 ELSE 0)
          = RateLimitedCount(classes)
    /\ \A i \in 1..Len(cooldowns) :
          /\ cooldowns[i].units = 120
          /\ classes[cooldowns[i].after].rate_limited
          /\ \A j \in 1..Len(cooldowns) :
                cooldowns[i].after = cooldowns[j].after => i = j
    \* the suspension comes before the retriable signal and before the next
    \* request
    /\ (rpc \in {"retriable", "attempt", "exhausted"} /\ requests > 0
        /\ Last(classes).rate_limited)
          => (cooldowns # <<>> /\ Last(cooldowns).after = requests)
    \* it is a retriable signal, not a fatal failure and not a success
    /\ \A i \in 1..Len(classes) :
          classes[i].rate_limited => classes[i].class \in RetriableClasses
    /\ (rpc \in {"fatal", "returned"}) => ~Last(classes).rate_limited

\* C4 (amended): a rate-limit answer causes exactly one 120-unit suspension
\* before the retriable signal, never a fatal failure, and no other
\* classification suspends; the call ends right after a rate-limit answer
\* only when that answer was the 5th attempt's.
C4_CooldownThenRetry ==
    /\ C4_Suspension
    /\ (rpc = "exhausted" /\ Last(classes).rate_limited) => tries = MaxTries
    /\ (rpc = "retriable" /\ Last(classes).rate_limited /\ tries < MaxTries)
          => ENABLED MR_Backoff

\* C4 (as claimed): every rate-limit answer is followed, after its one
\* suspension, by a retry attempt: the call never ends on one.
C4_AlwaysRetried ==
    /\ C4_Suspension
    /\ rpc = "exhausted" => ~Last(classes).rate_limited

\* A rate-limit answer was suspended for and then retried.
C4_Witness ==
    /\ rpc = "validate"
    /\ requests = 2
    /\ classes[1].rate_limited
    /\ Len(cooldowns) = 1
    /\ cooldowns[1] = [after |-> 1, units |-> 120]

---------------------------------------------------------------------------
(* Claims about pagination, checked under SpecPage *)

\* The last page the server reports (0 when paging or last_page is missing).
ReportedLastPage ==
    IF serverPaging = Absent THEN 0
    ELSE IF serverPaging.last_page = Absent THEN 0
    ELSE serverPaging.last_page.int

PagesDue == IF ReportedLastPage >= 1 THEN ReportedLastPage ELSE 1
ExpectedToken(i) == IF i = 1 THEN None ELSE PyInt(i)

\* C5: a list stream starting from token None against a constant last_page
\* L requests tokens None, 2, 3, ..., L in this order, one at a time, and
\* ends; page L+1 is never requested; the token returned is previous+1
\* exactly when last_page >= previous+1 and None otherwise; with paging or
\* last_page missing exactly one page is requested.
C5_Pagination ==
    pstream = "list" =>
        LET n == Len(pageRequests) IN
        /\ \A i \in 1..n :
              /\ pageRequests[i].token = ExpectedToken(i)
              /\ pageRequests[i].payload.page
                    = (IF i = 1 THEN Absent ELSE PyInt(i))
        /\ n <= PagesDue
        /\ (ppc = "request" /\ n > 0) =>
              (next_page_token = PyInt(n + 1) /\ ReportedLastPage >= n + 1)
        /\ ppc = "done" =>
              (next_page_token = None /\ ReportedLastPage < n + 1
               /\ n = PagesDue)
        /\ ppc = "respond" => n >= 1

\* last_page = 3: tokens None, 2, 3 were requested and the stream ended.
C5_Witness ==
    /\ pstream = "list"
    /\ ReportedLastPage = 3
    /\ ppc = "done"
    /\ Len(pageRequests) = 3
    /\ pageRequests[1].token = None
    /\ pageRequests[2].token = PyInt(2)
    /\ pageRequests[3].token = PyInt(3)

\* C8: a detail stream, which opts out of pagination (pagination = False),
\* is single-shot: whatever the response body carries, the token after the
\* first call is None and exactly one responses.info request is issued.
C8_DetailSingleShot ==
    (pstream = "detail" /\ ~DetailPagination) =>
        /\ Len(pageRequests) <= 1
        /\ (Len(pageRequests) = 1 /\ ppc # "respond") =>
              (next_page_token = None /\ ppc = "done")

---------------------------------------------------------------------------
(* Claims about discovery and normalization, checked under SpecTap *)

Range(seq) == {seq[i] : i \in 1..Len(seq)}

\* The resolution built from a form's own fields.
OwnResolution(f) == FillFieldsDict(<<>>, fields[f].list)

\* C1: forms never share seen-id or resolution state: the seen-id set a
\* form's detail stream consults holds only the ids that stream was given,
\* a record whose id is new to the form is emitted whatever other forms
\* have normalized, and it is resolved with the form's own fields.
C1_FormsIndependent ==
    /\ \A f \in FormIds :
          /\ tpc = "sync" => SeenIds(f) = {PyInt(i) : i \in called[f]}
          /\ (tpc = "sync" /\ called[f] # {}) => Resolution(f) = OwnResolution(f)
    /\ (lastCall # None /\ lastCall.first) => lastCall.result # None

\* C6: within one run of one form's detail stream every distinct identifier
\* given to post_process yields exactly one non-null record.
C6_OneRecordPerId ==
    \A f \in FormIds : \A i \in called[f] : emittedN[f][i] = 1

FormsListOk == formsList.status = 200 /\ formsList.ok = "true"

\* C7: a form whose field discovery fails takes only its own pair of streams
\* down: once discovery has ended, every form whose forms.info succeeds has
\* its list and detail streams returned, and the run goes on to sync them.
C7_FailureIsPerForm ==
    (FormsListOk /\ tpc \in {"sync", "aborted"}) =>
        \A g \in FormIds :
            GetFields(g, extra_retry_statuses).ok =>
                /\ \E st \in Range(returned) :
                      st.kind = "list" /\ st.form = g
                /\ \E st \in Range(returned) :
                      st.kind = "detail" /\ st.form = g
                /\ tpc = "sync"

\* The names the collision rule binds, in field order: the stripped title
\* when no earlier field was bound to it, else "{title}_{id}".
RECURSIVE BoundNames(_, _)
BoundNames(bound, rest) ==
    IF rest = <<>> THEN bound
    ELSE LET t == Strip(Head(rest).title) IN
         BoundNames(
             Append(bound,
                    IF t \in Range(bound)
                    THEN t \o <<"_">> \o Format(Head(rest).id)
                    ELSE t),
             Tail(rest))

\* C9: title collisions resolve to title and title_<id>, in encounter order,
\* both in the schema's property names and in the field-id-to-title
\* resolution post_process builds from the same fields.
C9_TitleCollision ==
    /\ \A f \in FormIds :
          fields[f] # Absent =>
              /\ SchemaNames(fields[f].list) = BoundNames(<<>>, fields[f].list)
              /\ Range(SchemaNames(fields[f].list)) \subseteq DOMAIN schema[f].dict
    /\ (lastCall # None /\ lastCall.filled) =>
          LET fl == fields[lastCall.form].list IN
          \A k \in 1..Len(fl) :
              /\ ResolveField(fields_dict, fl[k].id) # Absent
              /\ Strip(ResolveField(fields_dict, fl[k].id).str)
                    = BoundNames(<<>>, fl)[k]

\* The flattening precedence as claimed: first of a non-empty values on a
\* string-typed field; else non-null attachments unchanged; else utc_time,
\* whatever its value, as a UTC timestamp; else the first key's value.
ClaimedFlatten(field_type, value) ==
    LET values == Get(value.dict, "values")
        attachments == Get(value.dict, "attachments")
        utc_time == Get(value.dict, "utc_time")
    IN  IF field_type = "string" /\ IsList(values) /\ values.list # <<>>
        THEN values.list[1]
        ELSE IF attachments \notin {Absent, None} THEN attachments
        ELSE IF utc_time # Absent THEN FromTimestampMs(utc_time.int)
        ELSE value.dict[1][2]

\* C10: every resolved field of a normalized record holds the value the
\* precedence (values, attachments, utc_time, first key) takes from its
\* container.
C10_FlattenPrecedence ==
    (lastCall # None /\ "row" \in DOMAIN lastCall.result) =>
        LET entries == lastCall.row.responses
            sch == schema[lastCall.form].dict
            NameOf(j) == Strip(ResolveField(fields_dict, entries[j][1]).str)
        IN  \A j \in 1..Len(entries) :
                LET value == Get(entries[j][2].dict, "value") IN
                (/\ ResolveField(fields_dict, entries[j][1]) # Absent
                 /\ value \notin {Absent, None, PyDict(<<>>)}
                 /\ \A k \in (j + 1)..Len(entries) :
                       ResolveField(fields_dict, entries[k][1]) # Absent
                           => NameOf(k) # NameOf(j))
                => /\ NameOf(j) \in DOMAIN lastCall.result.row
                   /\ lastCall.result.row[NameOf(j)]
                         = ClaimedFlatten(FieldType(sch, NameOf(j)), value)

---------------------------------------------------------------------------
(* Claims about schema inference, checked under SpecType *)

Inferred == jsonschema_type # None
IsCheckbox == field.settings.inputtype = "checkbox"
IsBooleanSwitch ==
    field.settings.inputtype = "switch"
        /\ field.settings.defaulted \in {"true", "false"}
IsMultiList == field.settings.style = "list" /\ field.settings.multiple

\* The rule table with rule 1 matching exactly when isBoolean holds.
RuleTable(isBoolean) ==
    /\ isBoolean => jsonschema_type = BooleanType
    /\ (~isBoolean /\ IsMultiList) => jsonschema_type = ArrayOfStringType
    /\ (~isBoolean /\ ~IsMultiList) =>
          /\ field.type = "datetime" => jsonschema_type = DateTimeType
          /\ field.type = "counter" => jsonschema_type = IntegerType
          /\ field.type \in {"sketch", "attachments"}
                => jsonschema_type = ArrayOfObjectOrStringType
          /\ field.type \notin {"datetime", "counter", "sketch", "attachments"}
                => jsonschema_type = StringType

\* C11 (amended): get_jsonschema_type applies the rules in order, first
\* match wins: inputtype == checkbox, or inputtype == switch with a boolean
\* defaulted, gives boolean; style == list with truthy multiple gives
\* array-of-string; datetime, counter, sketch/attachments give their types;
\* anything else gives string.
C11_RuleTable == Inferred => RuleTable(IsCheckbox \/ IsBooleanSwitch)

\* C11 (as claimed): rule 1 is inputtype == checkbox alone, so a switch
\* field falls through to the later rules.
C11_CheckboxOnly == Inferred => RuleTable(IsCheckbox)

\* A checkbox field of type counter, styled as a multiple list, was given
\* the boolean type.
C11_Witness ==
    /\ Inferred
    /\ IsCheckbox
    /\ IsMultiList
    /\ field.type = "counter"
    /\ jsonschema_type = BooleanType

\* C16: the fields of a form are fetched once and cached: at most one
\* forms.info fetch of a detail stream has returned fields, the cached
\* fields are the ones it returned, and every normalization of the stream
\* resolves field ids with that field list.
C16_FieldsFetchedOnce ==
    /\ \A f \in FormIds :
          /\ fetched[f] <= 1
          /\ fetched[f] = 1 <=> fields[f] # Absent
          /\ fields[f] # Absent =>
                /\ fields[f] = PyList(serverForms[f].fields)
                /\ schema[f] = PyDict(GetSchema(serverForms[f].fields))
    /\ lastCall # None =>
          fields_dict = FillFieldsDict(<<>>, serverForms[lastCall.form].fields)

---------------------------------------------------------------------------
(* Claims about the list stream's run, checked under SpecList *)

\* The largest updated value among the summaries h.
MaxUpdated(h) ==
    CHOOSE m \in {h[i].updated : i \in 1..Len(h)} :
        \A i \in 1..Len(h) : h[i].updated <= m

\* The summaries whose replication value the list stream's state has taken.
Counted ==
    IF lpc \in {"child", "increment"}
    THEN SubSeq(summaries, 1, Len(summaries) - 1)
    ELSE summaries

C12_Observed ==
    \* the value seen so far is the largest of the summaries counted
    /\ lpc # "idle" =>
          markers["list"] = (IF Counted = <<>> THEN None
                             ELSE PyInt(MaxUpdated(Counted)))
    \* at DONE the bookmark is the largest updated value of the run
    /\ (lpc = "done" /\ summaries # <<>>) =>
          bookmark = PyInt(MaxUpdated(summaries))

C12_Step ==
    \* the bookmark, the persisted one included, is never lowered
    /\ bookmark # None => (bookmark' # None /\ bookmark'.int >= bookmark.int)
    \* the detail stream's request and normalization do not change it
    /\ lpc = "child" =>
          (markers'["list"] = markers["list"] /\ bookmark' = bookmark)

\* C12: when the list stream is done its bookmark is the maximum updated
\* value of the summaries emitted in the run, in whatever order they came;
\* the bookmark never decreases during the run and no detail-stream step
\* changes it.
C12_BookmarkIsMaxUpdated == []C12_Observed /\ [][C12_Step]_vars

\* The bound the claim expects: the persisted bookmark when there is one,
\* else the configured start_date, else none.
ExpectedBound ==
    IF state_bookmark # Absent THEN state_bookmark
    ELSE IF config_start_date # Absent THEN PyInt(config_start_date.iso)
    ELSE Absent

\* C13: every page request of a list stream's run carries as updated_after
\* the persisted bookmark when one exists, the configured start_date when
\* none exists, and no bound when neither exists.
C13_LowerBound ==
    \A i \in 1..Len(paramsSent) :
        paramsSent[i].updated_after = ExpectedBound

---------------------------------------------------------------------------
(* Claims about one normalization, checked under SpecNorm *)

\* The scenario's form: fields 1 and 2, both titled "Name".
ScenarioFields ==
    <<NumberedField(1, Name, "string"), NumberedField(2, Name, "string")>>
\* The scenario's payload: id 9, created 0, updated 0, and under "values"
\* the containers {"1": ["x"], "2": ["y"]}.
ScenarioPayload ==
    PyDict(<< <<"id", PyInt(9)>>, <<"created", PyInt(0)>>,
              <<"updated", PyInt(0)>>,
              <<"values",
                PyDict(<< <<IdText(1), ValuesOf(<<"x">>)>>,
                          <<IdText(2), ValuesOf(<<"y">>)>> >>)>> >>)
\* The record the scenario expects.
ScenarioRecord ==
    [n \in {KpaId, KpaCreated, KpaUpdated, Name, Name \o <<"_", "2">>} |->
        IF n = KpaId THEN PyInt(9)
        ELSE IF n \in {KpaCreated, KpaUpdated} THEN FromTimestampMs(0)
        ELSE IF n = Name THEN PyStr(<<"x">>)
        ELSE PyStr(<<"y">>)]

\* C14: the end-to-end scenario (two fields titled "Name" with ids 1 and 2,
\* one payload carrying "x" and "y" for them) yields the record
\* {kpa_id: 9, kpa_created: epoch 0, kpa_updated: epoch 0, Name: "x",
\* Name_2: "y"}.
C14_EndToEnd ==
    (npc = "done" /\ nfields = ScenarioFields /\ npayload = ScenarioPayload)
        => nresult = [row |-> ScenarioRecord]

\* The position of the field with the given id in a list of fields (0 when
\* no field has it).
IndexOfId(flds, id) ==
    IF \E k \in 1..Len(flds) : flds[k].id = id
    THEN CHOOSE k \in 1..Len(flds) : flds[k].id = id
    ELSE 0

\* The record key post_process writes a container of field id to.
KeyWritten(id) == Strip(ResolveField(nfields_dict, id).str)

\* C17: the names post_process resolves agree with the schema get_schema
\* built: each form-field key of the normalized record is a property of
\* the schema and is the name get_schema bound to that field id, and no two
\* field ids are written to the same key.
C17_ResolutionAgreesWithSchema ==
    (npc = "done" /\ "row" \in DOMAIN nresult) =>
        LET entries == LatestResponses(npayload).dict
            resolved == {j \in 1..Len(entries) :
                            ResolveField(nfields_dict, entries[j][1]) # Absent}
        IN  /\ \A j \in resolved :
                  LET key == KeyWritten(entries[j][1])
                      k == IndexOfId(nfields, entries[j][1])
                  IN  /\ key \in DOMAIN GetSchema(nfields)
                      /\ k # 0
                      /\ key = SchemaNames(nfields)[k]
            /\ \A i, j \in resolved :
                  KeyWritten(entries[i][1]) = KeyWritten(entries[j][1])
                      => i = j

---------------------------------------------------------------------------
(* Claims about discovery and the catalog, checked under SpecDisc *)

\* C15: when forms.list answers with a status other than 200 or a body
\* whose ok is not true, discover_streams raises: no stream, form stream or
\* fixed stream, is returned, and nothing is catalogued or run.
C15_FormsListFailureAborts ==
    ~FormsListOk =>
        /\ returned = <<>>
        /\ tpc \in {"start", "aborted"}
        /\ cursor = 1
        /\ \A f \in FormIds : infoRequests[f] = 0
        /\ catalog = None
        /\ calls = 0

\* forms.list answered 200 with ok false and the run was aborted, the fixed
\* streams constructed by then returned to nobody.
C15_Witness ==
    /\ formsList.status = 200
    /\ formsList.ok = "false"
    /\ tpc = "aborted"
    /\ streams = FixedStreams
    /\ returned = <<>>

\* C18: the streams discover_streams returns have pairwise distinct names.
C18_DistinctNames ==
    \A i, j \in 1..Len(returned) :
        returned[i].name = returned[j].name => i = j

\* C19: in discovery catalog_dict hides exactly the list streams (every
\* detail stream and every fixed stream is listed, no list stream is);
\* outside discovery the catalog is unfiltered.
C19_HidesExactlyListStreams ==
    catalog # None =>
        IF is_discover
        THEN \A st \in Range(returned) :
                IF st.kind = "list"
                THEN st.name \notin Range(catalog.list)
                ELSE st.name \in Range(catalog.list)
        ELSE catalog.list = [i \in 1..Len(returned) |-> returned[i].name]

===========================================================================
